---------------------------- MODULE Spec2Model ----------------------------
(***************************************************************************)
(* Model of the bittorrent client's commands `handshake` and               *)
(* `download_piece` (src/src/main.rs) as a state machine: one action per   *)
(* suspension point (.await) of the handler, with the synchronous code     *)
(* and the assertions that follow it up to the next one.                   *)
(*                                                                         *)
(* Byte buffers are kept by length and content class: a block of the       *)
(* assembly buffer is a record [len, data], where len is its byte count    *)
(* and data the class of its bytes (two blocks of equal len and data hold  *)
(* the same bytes).  Sha1 is a fixed function of the buffer's contents     *)
(* into a small digest space, so distinct buffers can collide.             *)
(***************************************************************************)
EXTENDS Integers, Naturals, Sequences, FiniteSets, TLC

VARIABLES
    cmd,          \* the subcommand run: "Handshake" or "DownloadPiece"
    pc,           \* position of the handler
    outcome,      \* "Running", "Ok" (Ok(())), "Err" (Err returned), "Panic"
                  \* (the process panics or aborts)
    conn,         \* the peer TcpStream: "none", "open", "closed"
    keys,         \* t.info.keys: "SingleFile" or "MultiFile"
    plength,      \* t.info.plength
    length,       \* Keys::SingleFile { length }
    hashes,       \* t.info.pieces.0, the expected digest of every piece
    piece_i,      \* the piece argument
    handshake,    \* the Handshake struct, overwritten by the peer's answer
    piece_size,
    nblocks,
    block,        \* the loop variable of `for block in 0..nblocks`
    all_blocks,   \* the assembly buffer
    built,        \* the Requests built by Request::new so far, in order
    lastMsg,      \* the last framed message yielded by peer.next()
    log,          \* what happened on the connection and the file, in order
    output,       \* the bytes of the output file, NoFile when not written
    file,         \* the torrent file as read, before it is parsed
    ser,          \* the `pieces` bytes serialized for the info hash
    encoded_value, \* the argument of the decode command
    decoded       \* what decode_bencoded_value returned for it

vars == <<cmd, pc, outcome, conn, keys, plength, length, hashes, piece_i,
          handshake, piece_size, nblocks, block, all_blocks, built, lastMsg,
          log, output, file, ser, encoded_value, decoded>>

----------------------------------------------------------------------------
(* Program constants and bounds                                            *)

BLOCK_MAX == 16384

MaxBlocks == 3     \* largest number of blocks of a piece
MaxPieces == 2     \* largest number of piece hashes of a torrent

PROTOCOL == "BitTorrent protocol"

Tags == {"Choke", "Unchoke", "Interested", "NotInterested", "Have",
         "Bitfield", "Request", "Piece", "Cancel"}

Digests == 0..2          \* the digest space
DataClasses == 0..1      \* content classes of a block's bytes

NoFile == <<[len |-> -1, data |-> 0]>>

\* the torrent file of a state in which the torrent is already parsed
NoTorrent == [required |-> TRUE, plength |-> 0, pieces |-> <<>>,
              hasLength |-> FALSE, length |-> 0, hasFiles |-> FALSE]

\* a serde_json Value is kept as a record: t is "int" (n, the number as it
\* is printed), "str" (s, the sequence of its bytes), "list" (items) or
\* "dict" (entries, the set of [k, v] with one entry per key)
NoValue ==
    [t |-> "none", n |-> <<>>, s |-> <<>>, items |-> <<>>, entries |-> {}]

\* no error: the message and the string formatted into it
NoError == [msg |-> "", arg |-> <<>>]

\* no call of decode_bencoded_value yet
NotDecoded ==
    [res |-> "None", err |-> NoError, val |-> NoValue, rest |-> <<>>]
NoMsg == [tag |-> "none", size |-> 0, index |-> 0, begin |-> 0, data |-> 0]

----------------------------------------------------------------------------
(* Pure functions of the download                                          *)

RECURSIVE SumLen(_)
SumLen(s) == IF s = <<>> THEN 0 ELSE s[1].len + SumLen(Tail(s))

\* all_blocks.len()
BufLen(buf) == SumLen(buf)

RECURSIVE Mix(_, _)
Mix(s, acc) ==
    IF s = <<>> THEN acc
    ELSE Mix(Tail(s), (2 * acc + s[1].data + (s[1].len % 3)) % 3)

\* Sha1 of the buffer: depends on every block's bytes and on their order
Sha1(buf) == Mix(buf, 0)

\* PieceSize without the test for a zero remainder
PieceSize_NoZeroCheck(i, npieces, len, plen) ==
    IF i = npieces - 1 THEN len % plen ELSE plen

\* lines 292-301, defined when the modulus is (plength > 0 or piece_i is
\* not the last index)
PieceSize(i, npieces, len, plen) ==
    IF i = npieces - 1
    THEN LET md == len % plen IN IF md = 0 THEN plen ELSE md
    ELSE plen

\* NBlocks rounding down
NBlocks_Floor(psize) == psize \div BLOCK_MAX

\* line 303
NBlocks(psize) == (psize + (BLOCK_MAX - 1)) \div BLOCK_MAX

\* lines 307-316
BlockSize(b, nb, psize) ==
    IF b = nb - 1
    THEN LET md == psize % BLOCK_MAX IN IF md = 0 THEN BLOCK_MAX ELSE md
    ELSE BLOCK_MAX

\* RequestOf with the block index as the byte offset
RequestOf_OffsetIsBlock(i, b, bsize) ==
    [index |-> i, begin |-> b, length |-> bsize]

\* x as u32 of a usize x: x mod 2^32, as x - (x div 2^32) * 2^32
AsU32(x) == x - ((x \div 65536) \div 65536) * 65536 * 65536

\* (block * BLOCK_MAX) as u32: 2^32 is BlocksPerU32 * BLOCK_MAX, so the cast
\* keeps block mod BlocksPerU32
BlocksPerU32 == (65536 \div BLOCK_MAX) * 65536
BeginAsU32(b) == (b % BlocksPerU32) * BLOCK_MAX

\* lines 318-322: Request::new(piece_i as u32, (block * BLOCK_MAX) as u32,
\* block_size as u32)
RequestOf(i, b, bsize) ==
    [index |-> AsU32(i), begin |-> BeginAsU32(b), length |-> AsU32(bsize)]

\* lines 263-264 (and 207-208)
ValidHandshake(h) == h.length = 19 /\ h.bittorrent = PROTOCOL

----------------------------------------------------------------------------
(* Inputs: the parsed torrent, the arguments and what the peer may send    *)

PLengths == {0, 1, BLOCK_MAX, 20000, (MaxBlocks - 1) * BLOCK_MAX + 1,
             MaxBlocks * BLOCK_MAX}
Lengths == {0, 1, 20000, 40000, MaxBlocks * BLOCK_MAX}

HashLists == UNION {[1..n -> Digests] : n \in 0..MaxPieces}

\* the peer's answers to the handshake: the right one and three wrong ones
HandshakeAnswers ==
    {[length |-> l, bittorrent |-> b] :
        l \in {19, 18}, b \in {PROTOCOL, "BitTorrent protocoX"}}

Msg(t, s, i, b, d) ==
    [tag |-> t, size |-> s, index |-> i, begin |-> b, data |-> d]

\* framed messages of every tag, with an empty and a one-byte payload
PeerMsgs == {Msg(t, s, 0, 0, 0) : t \in Tags, s \in {0, 1}}

\* Piece messages answering the request for block b of size bsize: the
\* expected one and ones with another index, offset or block length
PeerPieces(i, b, bsize) ==
    {Msg("Piece", 8 + l, ix, bg, d) :
        l \in {bsize, bsize - 1}, ix \in {i, i + 1},
        bg \in {b * BLOCK_MAX, (b + 1) * BLOCK_MAX}, d \in DataClasses}

\* entries of the log
Ev(e) == [ev |-> e, tag |-> "none", size |-> 0, index |-> 0, begin |-> 0,
          len |-> 0, data |-> 0]
SendEv(t, s, i, b, l) ==
    [ev |-> "send", tag |-> t, size |-> s, index |-> i, begin |-> b,
     len |-> l, data |-> 0]
RecvEv(m) ==
    [ev |-> "recv", tag |-> m.tag, size |-> m.size, index |-> m.index,
     begin |-> m.begin, len |-> IF m.size >= 8 THEN m.size - 8 ELSE 0,
     data |-> m.data]

----------------------------------------------------------------------------
(* The state after argument parsing and the read of the torrent file       *)

Init ==
    /\ cmd \in {"Handshake", "DownloadPiece"}
    /\ pc = "Start"
    /\ outcome = "Running"
    /\ conn = "none"
    /\ keys \in {"SingleFile", "MultiFile"}
    /\ plength \in PLengths
    /\ length \in IF keys = "SingleFile" THEN Lengths ELSE {0}
    /\ hashes \in HashLists
    /\ piece_i \in IF cmd = "DownloadPiece" THEN 0..MaxPieces ELSE {0}
    /\ cmd = "Handshake" =>
          /\ plength = BLOCK_MAX
          /\ Len(hashes) = 1
    /\ handshake = [length |-> 19, bittorrent |-> PROTOCOL]
    /\ piece_size = 0
    /\ nblocks = 0
    /\ block = 0
    /\ all_blocks = <<>>
    /\ built = <<>>
    /\ lastMsg = NoMsg
    /\ log = <<>>
    /\ output = NoFile
    /\ file = NoTorrent
    /\ ser = <<>>
    /\ encoded_value = <<>>
    /\ decoded = NotDecoded

----------------------------------------------------------------------------
(* Ways a step ends the command                                            *)

\* Dropped for a stream that outlives main (kept in a leaked or static value)
Dropped_Leaked(c) == c

\* the peer stream is dropped when main returns or unwinds
Dropped(c) == IF c = "open" THEN "closed" ELSE c

\* `?` on an Err: main returns the error
ReturnErr ==
    /\ outcome' = "Err"
    /\ pc' = "Done"
    /\ conn' = Dropped(conn)

\* assert!, assert_eq!, expect, todo!, index out of bounds: the process panics
Panics ==
    /\ outcome' = "Panic"
    /\ pc' = "Done"
    /\ conn' = Dropped(conn)

\* the step succeeds and the handler goes on at p
Goto(p) ==
    /\ pc' = p
    /\ UNCHANGED <<outcome, conn>>

input == <<cmd, keys, plength, length, hashes, piece_i, file, ser,
           encoded_value, decoded>>
loop == <<piece_size, nblocks, block, all_blocks, built>>

----------------------------------------------------------------------------
(* Command::Handshake                                                      *)

\* lines 184-192: parse the peer address and connect
HsConnect ==
    /\ cmd = "Handshake" /\ pc = "Start"
    /\ \E ok \in BOOLEAN :
          IF ok
          THEN /\ conn' = "open"
               /\ pc' = "HsWrite"
               /\ UNCHANGED outcome
          ELSE ReturnErr
    /\ UNCHANGED <<input, handshake, loop, lastMsg, log, output>>

\* lines 193-202
HsWrite ==
    /\ cmd = "Handshake" /\ pc = "HsWrite"
    /\ \E ok \in BOOLEAN :
          IF ok
          THEN /\ Goto("HsRead")
               /\ log' = Append(log, Ev("hs_write"))
          ELSE /\ ReturnErr
               /\ UNCHANGED log
    /\ UNCHANGED <<input, handshake, loop, lastMsg, output>>

\* lines 203-209; println! panics when stdout cannot be written
HsRead ==
    /\ cmd = "Handshake" /\ pc = "HsRead"
    /\ \/ /\ ReturnErr
          /\ UNCHANGED <<handshake, log>>
       \/ \E r \in HandshakeAnswers, printed \in BOOLEAN :
             /\ handshake' = r
             /\ log' = Append(log, Ev("hs_read"))
             /\ IF ValidHandshake(r) /\ printed
                THEN /\ outcome' = "Ok"
                     /\ pc' = "Done"
                     /\ conn' = Dropped(conn)
                ELSE Panics
    /\ UNCHANGED <<input, loop, lastMsg, output>>

----------------------------------------------------------------------------
(* Command::DownloadPiece                                                  *)

\* lines 219-224
CheckTorrent ==
    /\ cmd = "DownloadPiece" /\ pc = "Start"
    /\ IF keys # "SingleFile"
       THEN Panics
       ELSE IF piece_i < Len(hashes)
            THEN Goto("Announce")
            ELSE Panics
    /\ UNCHANGED <<input, handshake, loop, lastMsg, log, output>>

\* lines 226-244: the info hash, the tracker url and reqwest::get(..).await;
\* info_hash()?, to_string(..)? and get(..)? may return an error
Announce ==
    /\ pc = "Announce"
    /\ \E ok \in BOOLEAN : IF ok THEN Goto("TrackerBody") ELSE ReturnErr
    /\ UNCHANGED <<input, handshake, loop, lastMsg, log, output>>

\* lines 245-247: response.bytes().await and the parse of the response
TrackerBody ==
    /\ pc = "TrackerBody"
    /\ \E ok \in BOOLEAN : IF ok THEN Goto("Connect") ELSE ReturnErr
    /\ UNCHANGED <<input, handshake, loop, lastMsg, log, output>>

\* lines 249-252: peers.0[0] panics on an empty peer list
Connect ==
    /\ pc = "Connect"
    /\ \E r \in {"nopeer", "refused", "connected"} :
          CASE r = "nopeer" -> Panics
            [] r = "refused" -> ReturnErr
            [] OTHER -> /\ conn' = "open"
                        /\ pc' = "WriteHandshake"
                        /\ UNCHANGED outcome
    /\ UNCHANGED <<input, handshake, loop, lastMsg, log, output>>

\* lines 253-258
WriteHandshake ==
    /\ pc = "WriteHandshake"
    /\ \E ok \in BOOLEAN :
          IF ok
          THEN /\ Goto("ReadHandshake")
               /\ log' = Append(log, Ev("hs_write"))
          ELSE /\ ReturnErr
               /\ UNCHANGED log
    /\ UNCHANGED <<input, handshake, loop, lastMsg, output>>

\* lines 259-264
ReadHandshake ==
    /\ pc = "ReadHandshake"
    /\ \/ /\ ReturnErr
          /\ UNCHANGED <<handshake, log>>
       \/ \E r \in HandshakeAnswers :
             /\ handshake' = r
             /\ log' = Append(log, Ev("hs_read"))
             /\ IF ValidHandshake(r) THEN Goto("AwaitBitfield") ELSE Panics
    /\ UNCHANGED <<input, loop, lastMsg, output>>

\* RecvBitfield without the assertion on the tag
RecvBitfield_AnyTag ==
    /\ pc = "AwaitBitfield"
    /\ \/ Panics /\ UNCHANGED <<lastMsg, log>>
       \/ ReturnErr /\ UNCHANGED <<lastMsg, log>>
       \/ \E r \in PeerMsgs :
             /\ lastMsg' = r
             /\ log' = Append(log, RecvEv(r))
             /\ Goto("Interested")
    /\ UNCHANGED <<input, handshake, loop, output>>

\* lines 267-273
RecvBitfield ==
    /\ pc = "AwaitBitfield"
    /\ \/ Panics /\ UNCHANGED <<lastMsg, log>>       \* None
       \/ ReturnErr /\ UNCHANGED <<lastMsg, log>>    \* Some(Err(_))
       \/ \E r \in PeerMsgs :                        \* Some(Ok(r))
             /\ lastMsg' = r
             /\ log' = Append(log, RecvEv(r))
             /\ IF r.tag = "Bitfield" THEN Goto("Interested") ELSE Panics
    /\ UNCHANGED <<input, handshake, loop, output>>

\* lines 276-281
SendInterested ==
    /\ pc = "Interested"
    /\ \E ok \in BOOLEAN :
          IF ok
          THEN /\ Goto("AwaitUnchoke")
               /\ log' = Append(log, SendEv("Interested", 0, 0, 0, 0))
          ELSE /\ ReturnErr
               /\ UNCHANGED log
    /\ UNCHANGED <<input, handshake, loop, lastMsg, output>>

\* RecvUnchoke without the assertions on the tag and the payload
RecvUnchoke_AnyMessage ==
    /\ pc = "AwaitUnchoke"
    /\ \/ Panics /\ UNCHANGED <<lastMsg, log>>
       \/ ReturnErr /\ UNCHANGED <<lastMsg, log>>
       \/ \E r \in PeerMsgs :
             /\ lastMsg' = r
             /\ log' = Append(log, RecvEv(r))
             /\ Goto("Sizes")
    /\ UNCHANGED <<input, handshake, loop, output>>

\* RecvUnchoke that drops a message that is not an empty Unchoke and waits
\* for the next one
RecvUnchoke_KeepsWaiting ==
    /\ pc = "AwaitUnchoke"
    /\ \/ Panics /\ UNCHANGED <<lastMsg, log>>
       \/ ReturnErr /\ UNCHANGED <<lastMsg, log>>
       \/ \E r \in PeerMsgs :
             /\ lastMsg' = r
             /\ IF r.tag = "Unchoke" /\ r.size = 0
                THEN /\ Goto("Sizes")
                     /\ log' = Append(log, RecvEv(r))
                ELSE /\ Goto("AwaitUnchoke")
                     /\ UNCHANGED log
    /\ UNCHANGED <<input, handshake, loop, output>>

\* lines 283-289
RecvUnchoke ==
    /\ pc = "AwaitUnchoke"
    /\ \/ Panics /\ UNCHANGED <<lastMsg, log>>       \* None
       \/ ReturnErr /\ UNCHANGED <<lastMsg, log>>    \* Some(Err(_))
       \/ \E r \in PeerMsgs :                        \* Some(Ok(r))
             /\ lastMsg' = r
             /\ log' = Append(log, RecvEv(r))
             /\ IF r.tag = "Unchoke" /\ r.size = 0
                THEN Goto("Sizes")
                ELSE Panics
    /\ UNCHANGED <<input, handshake, loop, output>>

\* lines 291-305: `length % t.info.plength` panics when plength is 0, and
\* Vec::with_capacity(piece_size) ends the process when the piece_size bytes
\* the torrent file asks for cannot be allocated (a capacity above
\* isize::MAX panics, a refused allocation aborts); a capacity of 0
\* allocates nothing
ComputeSizes ==
    /\ pc = "Sizes"
    /\ IF piece_i = Len(hashes) - 1 /\ plength = 0
       THEN /\ Panics
            /\ UNCHANGED loop
       ELSE /\ piece_size' = PieceSize(piece_i, Len(hashes), length, plength)
            /\ nblocks' = NBlocks(piece_size')
            /\ UNCHANGED built
            /\ \E allocated \in BOOLEAN :
                  IF allocated \/ piece_size' = 0
                  THEN /\ all_blocks' = <<>>
                       /\ block' = 0
                       /\ Goto(IF nblocks' = 0 THEN "Verify" ELSE "Request")
                  ELSE /\ Panics
                       /\ UNCHANGED <<all_blocks, block>>
    /\ UNCHANGED <<input, handshake, lastMsg, log, output>>

\* SendRequest that also sends the request for the next block before the
\* answer to this one is awaited
SendRequest_Pipelined ==
    /\ pc = "Request"
    /\ LET req == RequestOf(piece_i, block,
                            BlockSize(block, nblocks, piece_size))
           nxt == RequestOf(piece_i, block + 1,
                            BlockSize(block + 1, nblocks, piece_size))
           one == SendEv("Request", 12, req.index, req.begin, req.length)
           two == SendEv("Request", 12, nxt.index, nxt.begin, nxt.length)
       IN /\ built' = Append(built, req)
          /\ \E ok \in BOOLEAN :
                IF ok
                THEN /\ Goto("AwaitPiece")
                     /\ log' = IF block + 1 < nblocks
                               THEN log \o <<one, two>>
                               ELSE Append(log, one)
                ELSE /\ ReturnErr
                     /\ UNCHANGED log
    /\ UNCHANGED <<input, handshake, piece_size, nblocks, block, all_blocks,
                   lastMsg, output>>

\* lines 306-329: the Request is built (318-322) and sent (323-329)
SendRequest ==
    /\ pc = "Request"
    /\ LET req == RequestOf(piece_i, block,
                            BlockSize(block, nblocks, piece_size))
       IN /\ built' = Append(built, req)
          /\ \E ok \in BOOLEAN :
                IF ok
                THEN /\ Goto("AwaitPiece")
                     /\ log' = Append(log, SendEv("Request", 12, req.index,
                                                  req.begin, req.length))
                ELSE /\ ReturnErr
                     /\ UNCHANGED log
    /\ UNCHANGED <<input, handshake, piece_size, nblocks, block, all_blocks,
                   lastMsg, output>>

\* PieceAccepted without the check of the block's length
PieceAccepted_NoLength(m, i, b, bsize) ==
    /\ m.tag = "Piece"
    /\ m.size # 0
    /\ m.size >= 8
    /\ m.index = i
    /\ m.begin = b * BLOCK_MAX

\* lines 336-343: the checks on the message answering the request for block b
PieceAccepted(m, i, b, bsize) ==
    /\ m.tag = "Piece"
    /\ m.size # 0
    /\ m.size >= 8
    /\ m.index = i
    /\ m.begin = b * BLOCK_MAX
    /\ m.size - 8 = bsize

\* lines 331-345
RecvPiece ==
    /\ pc = "AwaitPiece"
    /\ LET block_size == BlockSize(block, nblocks, piece_size)
       IN \/ Panics /\ UNCHANGED <<lastMsg, log, loop>>       \* None
          \/ ReturnErr /\ UNCHANGED <<lastMsg, log, loop>>    \* Some(Err(_))
          \/ \E r \in PeerMsgs \cup PeerPieces(piece_i, block, block_size) :
                /\ lastMsg' = r
                /\ log' = Append(log, RecvEv(r))
                /\ IF PieceAccepted(r, piece_i, block, block_size)
                   THEN /\ all_blocks' = Append(all_blocks,
                               [len |-> r.size - 8, data |-> r.data])
                        /\ block' = block + 1
                        /\ Goto(IF block + 1 = nblocks THEN "Verify"
                                ELSE "Request")
                        /\ UNCHANGED <<piece_size, nblocks, built>>
                   ELSE /\ Panics
                        /\ UNCHANGED loop
    /\ UNCHANGED <<input, handshake, output>>

\* Verified without the comparison of the digest
Verified_LengthOnly(buf, psize, piece_hash) == BufLen(buf) = psize

\* lines 347-355
Verified(buf, psize, piece_hash) ==
    /\ BufLen(buf) = psize
    /\ Sha1(buf) = piece_hash

VerifyPiece ==
    /\ pc = "Verify"
    /\ IF Verified(all_blocks, piece_size, hashes[piece_i + 1])
       THEN /\ Goto("Write")
            /\ log' = Append(log, Ev("verify"))
       ELSE /\ Panics
            /\ UNCHANGED log
    /\ UNCHANGED <<input, handshake, loop, lastMsg, output>>

\* the first n bytes of a buffer
RECURSIVE Take(_, _)
Take(buf, n) ==
    IF n = 0 \/ buf = <<>> THEN <<>>
    ELSE IF buf[1].len <= n
         THEN <<buf[1]>> \o Take(Tail(buf), n - buf[1].len)
         ELSE <<[len |-> n, data |-> buf[1].data]>>

\* byte counts at which a write of the buffer may stop with an error
PartialSizes(buf) ==
    {n \in {0, BLOCK_MAX \div 2, BLOCK_MAX, BufLen(buf) - 1} :
        0 <= n /\ n < BufLen(buf)}

\* lines 357-360: tokio::fs::write creates or truncates the file and writes
\* the buffer.  It fails with no file created, or with the file holding the
\* bytes written before the error; after a whole write println! panics when
\* stdout cannot be written.
WriteOut ==
    /\ pc = "Write"
    /\ \/ /\ ReturnErr
          /\ UNCHANGED <<output, log>>
       \/ \E n \in PartialSizes(all_blocks) :
             /\ ReturnErr
             /\ output' = Take(all_blocks, n)
             /\ UNCHANGED log
       \/ \E printed \in BOOLEAN :
             /\ output' = all_blocks
             /\ log' = Append(log, Ev("write"))
             /\ IF printed
                THEN /\ outcome' = "Ok"
                     /\ pc' = "Done"
                     /\ conn' = Dropped(conn)
                ELSE Panics
    /\ UNCHANGED <<input, handshake, loop, lastMsg>>

Next ==
    \/ HsConnect
    \/ HsWrite
    \/ HsRead
    \/ CheckTorrent
    \/ Announce
    \/ TrackerBody
    \/ Connect
    \/ WriteHandshake
    \/ ReadHandshake
    \/ RecvBitfield
    \/ SendInterested
    \/ RecvUnchoke
    \/ ComputeSizes
    \/ SendRequest
    \/ RecvPiece
    \/ VerifyPiece
    \/ WriteOut

Spec == Init /\ [][Next]_vars

\* the steps that wait for nothing: synchronous code of main
LocalStep == CheckTorrent \/ ComputeSizes \/ VerifyPiece

\* the steps that wait for the peer to deliver a message or to close
RecvStep == RecvBitfield \/ RecvUnchoke \/ RecvPiece

\* the steps of a started download that wait for the peer or the file
\* system: the receives, the sends and the write of the output file
StartedIoStep == RecvStep \/ SendInterested \/ SendRequest \/ WriteOut

\* main runs its synchronous code to the next await; nothing in the code
\* bounds the time an await takes
SpecFair == Spec /\ WF_vars(LocalStep)

----------------------------------------------------------------------------
(* The size computations on their own: PieceSize, NBlocks and BlockSize     *)
(* applied to torrents with a non-zero piece length and file length, for   *)
(* sizes around every multiple of BLOCK_MAX                                 *)

AroundBlocks ==
    {k * BLOCK_MAX + d : k \in 1..MaxBlocks, d \in {-1, 0, 1}}

SizingPLengths == {1, 2, 3, 400, 20000, 262144} \cup AroundBlocks
SizingLengths == {1, 2, 3, 1000, 20000, 40000, 500000} \cup AroundBlocks

InitSizing ==
    /\ cmd = "DownloadPiece"
    /\ pc = "SizePiece"
    /\ outcome = "Running"
    /\ conn = "none"
    /\ keys = "SingleFile"
    /\ plength \in SizingPLengths
    /\ length \in SizingLengths
    /\ hashes \in {[i \in 1..n |-> 0] : n \in 1..MaxPieces}
    /\ piece_i \in 0..(Len(hashes) - 1)
    /\ handshake = [length |-> 19, bittorrent |-> PROTOCOL]
    /\ piece_size = 0
    /\ nblocks = 0
    /\ block = 0
    /\ all_blocks = <<>>
    /\ built = <<>>
    /\ lastMsg = NoMsg
    /\ log = <<>>
    /\ output = NoFile
    /\ file = NoTorrent
    /\ ser = <<>>
    /\ encoded_value = <<>>
    /\ decoded = NotDecoded

\* lines 292-303: piece_size and nblocks
ApplyPieceSize ==
    /\ pc = "SizePiece"
    /\ piece_size' = PieceSize(piece_i, Len(hashes), length, plength)
    /\ nblocks' = NBlocks(piece_size')
    /\ pc' = "SizeBlocks"
    /\ UNCHANGED <<input, outcome, conn, handshake, block, all_blocks, built,
                   lastMsg, log, output>>

\* lines 306-322 of one turn of the loop: block_size and the Request built
\* from it; nothing is sent and nothing is put in the buffer
ApplyBlockSize ==
    /\ pc = "SizeBlocks"
    /\ block < nblocks
    /\ built' = Append(built,
                       RequestOf(piece_i, block,
                                 BlockSize(block, nblocks, piece_size)))
    /\ block' = block + 1
    /\ UNCHANGED <<input, pc, outcome, conn, handshake, piece_size, nblocks,
                   all_blocks, lastMsg, log, output>>

NextSizing ==
    \/ ApplyPieceSize
    \/ ApplyBlockSize

SpecSizing == InitSizing /\ [][NextSizing]_vars

----------------------------------------------------------------------------
(* The parse of the torrent file (src/src/torrent.rs): the info dictionary *)
(* is kept as the record of its keys; `pieces` is kept byte by byte        *)

HASH_LEN == 20

\* v.chunks_exact(n): the whole chunks of n bytes of v, in order
ChunksExact(v, n) ==
    [i \in 1..(Len(v) \div n) |-> SubSeq(v, n * (i - 1) + 1, n * i)]

\* visit_bytes that keeps the whole chunks of a string of any length
VisitBytes_Truncating(v) ==
    [ok |-> TRUE, hashes |-> ChunksExact(v, HASH_LEN)]

\* torrent.rs lines 94-107
VisitBytes(v) ==
    IF Len(v) % HASH_LEN # 0
    THEN [ok |-> FALSE, hashes |-> <<>>]
    ELSE [ok |-> TRUE, hashes |-> ChunksExact(v, HASH_LEN)]

RECURSIVE Concat(_)
Concat(ss) == IF ss = <<>> THEN <<>> ELSE ss[1] \o Concat(Tail(ss))

\* torrent.rs lines 119-125: serialize_bytes(&self.0.concat())
SerializeHashes(hs) == Concat(hs)

\* torrent.rs lines 46-65: the untagged enum takes the first variant that
\* deserializes from the keys left over by the named fields of Info, and a
\* variant ignores the keys it does not name
ParseKeys(f) ==
    IF f.hasLength THEN "SingleFile"
    ELSE IF f.hasFiles THEN "MultiFile"
    ELSE "NoVariant"

\* byte strings of n bytes: all zero, or the multiples of 7 modulo 256
ByteStrings(n) == {[i \in 1..n |-> (a * i) % 256] : a \in {0, 7}}

TorrentFiles ==
    {[required |-> r, plength |-> pl, pieces |-> p, hasLength |-> hl,
      length |-> l, hasFiles |-> hf] :
        r \in BOOLEAN, pl \in PLengths,
        p \in UNION {ByteStrings(HASH_LEN * n + d) :
                        n \in 0..MaxPieces, d \in {0, 1, HASH_LEN - 1}},
        hl \in BOOLEAN, l \in Lengths, hf \in BOOLEAN}

InitTorrent ==
    /\ cmd = "DownloadPiece"
    /\ pc = "Parse"
    /\ outcome = "Running"
    /\ conn = "none"
    /\ keys = "NoVariant"
    /\ plength = 0
    /\ length = 0
    /\ hashes = <<>>
    /\ piece_i \in 0..MaxPieces
    /\ handshake = [length |-> 19, bittorrent |-> PROTOCOL]
    /\ piece_size = 0
    /\ nblocks = 0
    /\ block = 0
    /\ all_blocks = <<>>
    /\ built = <<>>
    /\ lastMsg = NoMsg
    /\ log = <<>>
    /\ output = NoFile
    /\ file \in TorrentFiles
    /\ file.hasLength \/ file.length = 0
    /\ ser = <<>>
    /\ encoded_value = <<>>
    /\ decoded = NotDecoded

\* main.rs lines 216-218 with torrent.rs lines 8-65 and 94-117: a missing or
\* ill-typed key, a `pieces` string that visit_bytes refuses, or keys that
\* match no variant of Keys make from_bytes return an error
ParseTorrent ==
    /\ pc = "Parse"
    /\ LET visited == VisitBytes(file.pieces)
           variant == ParseKeys(file)
       IN IF file.required /\ visited.ok /\ variant # "NoVariant"
          THEN /\ keys' = variant
               /\ plength' = file.plength
               /\ length' = IF variant = "SingleFile" THEN file.length ELSE 0
               /\ hashes' = visited.hashes
               /\ Goto("Start")
          ELSE /\ ReturnErr
               /\ UNCHANGED <<keys, plength, length, hashes>>
    /\ UNCHANGED <<cmd, piece_i, file, ser, encoded_value, decoded, handshake,
                   loop, lastMsg, log, output>>

\* main.rs line 226 with torrent.rs lines 16-23 and 119-125: the info
\* dictionary is serialized again for the info hash
InfoHash ==
    /\ pc = "Announce"
    /\ ser' = SerializeHashes(hashes)
    /\ Goto("Hashed")
    /\ UNCHANGED <<cmd, keys, plength, length, hashes, piece_i, file,
                   encoded_value, decoded, handshake, loop, lastMsg, log,
                   output>>

NextTorrent ==
    \/ ParseTorrent
    \/ CheckTorrent
    \/ InfoHash

SpecTorrent == InitTorrent /\ [][NextTorrent]_vars

----------------------------------------------------------------------------
(* decode_bencoded_value (src/src/main.rs lines 50-104) on a string kept   *)
(* as the sequence of its characters                                       *)

MaxTokens == 4     \* largest number of pieces an input is put together from

DigitChars == <<"0", "1", "2", "3", "4", "5", "6", "7", "8", "9">>
IsDigit(c) == \E d \in 1..10 : DigitChars[d] = c
DigitVal(c) == (CHOOSE d \in 1..10 : DigitChars[d] = c) - 1

\* the string is kept as the sequence of its UTF-8 bytes: an ASCII character
\* is one element, the character U+00E9 the two elements "C3" "A9"
ContinuationBytes == {"A9"}

\* str::is_char_boundary(k)
IsCharBoundary(s, k) ==
    \/ k = 0
    \/ k = Len(s)
    \/ k < Len(s) /\ s[k + 1] \notin ContinuationBytes

RECURSIVE Decimal(_, _)
Decimal(ds, acc) ==
    IF ds = <<>> THEN acc ELSE Decimal(Tail(ds), 10 * acc + DigitVal(ds[1]))

AllDigits(ds) == ds # <<>> /\ \A k \in 1..Len(ds) : IsDigit(ds[k])

\* a digit string without its leading zeros
RECURSIVE StripZeros(_)
StripZeros(ds) ==
    IF Len(ds) > 1 /\ ds[1] = "0" THEN StripZeros(Tail(ds)) ELSE ds

\* a <= b for digit strings of one length
RECURSIVE LexLeq(_, _)
LexLeq(a, b) ==
    \/ a = <<>>
    \/ DigitVal(a[1]) < DigitVal(b[1])
    \/ a[1] = b[1] /\ LexLeq(Tail(a), Tail(b))

\* the number written ds is at most the number written max
AtMost(ds, max) ==
    LET c == StripZeros(ds)
    IN \/ Len(c) < Len(max)
       \/ Len(c) = Len(max) /\ LexLeq(c, max)

\* i64::MAX, -i64::MIN and usize::MAX (of a 64-bit target) in digits
I64_MAX == <<"9", "2", "2", "3", "3", "7", "2", "0", "3", "6", "8", "5", "4",
             "7", "7", "5", "8", "0", "7">>
I64_MIN_ABS == <<"9", "2", "2", "3", "3", "7", "2", "0", "3", "6", "8", "5",
                 "4", "7", "7", "5", "8", "0", "8">>
USIZE_MAX == <<"1", "8", "4", "4", "6", "7", "4", "4", "0", "7", "3", "7",
               "0", "9", "5", "5", "1", "6", "1", "5">>

\* digits.parse::<i64>(): an optional sign and at least one digit, of a value
\* in the range of i64; n is the number as serde_json prints it
ParseI64(ds) ==
    LET signed == ds # <<>> /\ ds[1] \in {"+", "-"}
        neg == ds # <<>> /\ ds[1] = "-"
        body == IF signed THEN Tail(ds) ELSE ds
        c == StripZeros(body)
    IN IF AllDigits(body)
          /\ AtMost(body, IF neg THEN I64_MIN_ABS ELSE I64_MAX)
       THEN [ok |-> TRUE,
             n |-> IF neg /\ c # <<"0">> THEN <<"-">> \o c ELSE c]
       ELSE [ok |-> FALSE, n |-> <<>>]

\* len.parse::<usize>(): an optional plus sign and at least one digit, of a
\* value in the range of usize; n is the number in digits
ParseUsize(ds) ==
    LET body == IF ds # <<>> /\ ds[1] = "+" THEN Tail(ds) ELSE ds
    IN IF AllDigits(body) /\ AtMost(body, USIZE_MAX)
       THEN [ok |-> TRUE, n |-> StripZeros(body)]
       ELSE [ok |-> FALSE, n |-> <<>>]

\* len > rest.len() for len in digits; a number of ten digits or more is
\* above the length of every string of this model
Exceeds(n, rest) == Len(n) > 9 \/ Decimal(n, 0) > Len(rest)

\* s.split_once(c): the index of the first c in s, 0 when there is none
IndexOf(s, c) ==
    IF \E k \in 1..Len(s) : s[k] = c
    THEN CHOOSE k \in 1..Len(s) : s[k] = c /\ \A j \in 1..(k - 1) : s[j] # c
    ELSE 0

IntV(n) == [NoValue EXCEPT !.t = "int", !.n = n]
StrV(s) == [NoValue EXCEPT !.t = "str", !.s = s]
ListV(items) == [NoValue EXCEPT !.t = "list", !.items = items]
DictV(entries) == [NoValue EXCEPT !.t = "dict", !.entries = entries]

\* dict.insert(key_str, value): the entry of an equal key is replaced
MapInsert(m, k, v) == {e \in m : e.k # k} \cup {[k |-> k, v |-> v]}

\* the results of decode_bencoded_value: Ok((value, rest)), Err(message),
\* and the panic of a slice out of the bounds of the string
DecodeOk(v, rest) == [res |-> "Ok", err |-> NoError, val |-> v, rest |-> rest]
DecodeErr(msg, arg) ==
    [res |-> "Err", err |-> [msg |-> msg, arg |-> arg], val |-> NoValue,
     rest |-> <<>>]
DecodePanic ==
    [res |-> "Panic", err |-> NoError, val |-> NoValue, rest |-> <<>>]

KeyNotString == "Dictionary keys must be strings"

\* the end of a list or dictionary that leaves its `e` in the rest
AfterEnd_KeepsE(rest) ==
    IF rest = <<>> THEN DecodePanic ELSE [res |-> "Ok", rest |-> rest]

\* lines 72 and 88: &rest[1..] panics on the empty string
AfterEnd(rest) ==
    IF rest = <<>> THEN DecodePanic ELSE [res |-> "Ok", rest |-> Tail(rest)]

\* line 80: if let Value::String(key_str) = key
KeyIsString(key) == key.t = "str"

RECURSIVE decode_bencoded_value(_), DecodeList(_, _), DecodeDict(_, _)

\* lines 64-73: the loop of the list arm and what follows it
DecodeList(rest, values) ==
    IF rest # <<>> /\ rest[1] # "e"
    THEN LET r == decode_bencoded_value(rest)
         IN IF r.res # "Ok" THEN r
            ELSE DecodeList(r.rest, Append(values, r.val))
    ELSE LET end == AfterEnd(rest)
         IN IF end.res # "Ok" THEN end
            ELSE DecodeOk(ListV(values), end.rest)

\* lines 74-89: the loop of the dictionary arm and what follows it
DecodeDict(rest, dict) ==
    IF rest # <<>> /\ rest[1] # "e"
    THEN LET key == decode_bencoded_value(rest)
         IN IF key.res # "Ok" THEN key
            ELSE LET value == decode_bencoded_value(key.rest)
                 IN IF value.res # "Ok" THEN value
                    ELSE IF KeyIsString(key.val)
                         THEN DecodeDict(value.rest,
                                         MapInsert(dict, key.val.s, value.val))
                         ELSE DecodeErr(KeyNotString, <<>>)
    ELSE LET end == AfterEnd(rest)
         IN IF end.res # "Ok" THEN end
            ELSE DecodeOk(DictV(dict), end.rest)

\* lines 50-104; rest[..len] panics when len is above the length of rest or
\* inside a character
decode_bencoded_value(ev) ==
    IF ev = <<>> THEN DecodeErr("Unhandled encoded value: ", ev)
    ELSE CASE ev[1] = "i" ->
                LET after == Tail(ev)
                    e == IndexOf(after, "e")
                    n == ParseI64(SubSeq(after, 1, e - 1))
                IN IF e = 0 \/ ~n.ok
                   THEN DecodeErr("Failed to parse integer", <<>>)
                   ELSE DecodeOk(IntV(n.n), SubSeq(after, e + 1, Len(after)))
           [] ev[1] = "l" -> DecodeList(Tail(ev), <<>>)
           [] ev[1] = "d" -> DecodeDict(Tail(ev), {})
           [] IsDigit(ev[1]) ->
                LET c == IndexOf(ev, ":")
                    len == ParseUsize(SubSeq(ev, 1, c - 1))
                    rest == SubSeq(ev, c + 1, Len(ev))
                IN IF c = 0
                   THEN DecodeErr(
                     "Failed to split length and remainder for string", <<>>)
                   ELSE IF ~len.ok
                   THEN DecodeErr("Failed to parse length", <<>>)
                   ELSE IF Exceeds(len.n, rest) THEN DecodePanic
                   ELSE IF ~IsCharBoundary(rest, Decimal(len.n, 0))
                   THEN DecodePanic
                   ELSE DecodeOk(StrV(SubSeq(rest, 1, Decimal(len.n, 0))),
                                 SubSeq(rest, Decimal(len.n, 0) + 1,
                                        Len(rest)))
           [] OTHER -> DecodeErr("Unhandled encoded value: ", ev)

\* the pieces the inputs are put together from
Tokens == {<<"i", "1", "e">>, <<"i", "-", "2", "e">>, <<"1", ":", "a">>,
           <<"0", ":">>, <<"2", ":">>, <<"l">>, <<"d">>, <<"e">>,
           <<"l", "e">>, <<"i", "1">>, <<"C3", "A9">>}

EncodedValues ==
    {Concat(ts) : ts \in UNION {[1..n -> Tokens] : n \in 0..MaxTokens}}

InitDecode ==
    /\ cmd = "Decode"
    /\ pc = "Decode"
    /\ outcome = "Running"
    /\ conn = "none"
    /\ keys = "NoVariant"
    /\ plength = 0
    /\ length = 0
    /\ hashes = <<>>
    /\ piece_i = 0
    /\ handshake = [length |-> 19, bittorrent |-> PROTOCOL]
    /\ piece_size = 0
    /\ nblocks = 0
    /\ block = 0
    /\ all_blocks = <<>>
    /\ built = <<>>
    /\ lastMsg = NoMsg
    /\ log = <<>>
    /\ output = NoFile
    /\ file = NoTorrent
    /\ ser = <<>>
    /\ encoded_value \in EncodedValues
    /\ decoded = NotDecoded

\* lines 120-124: Command::Decode; eprintln! and println! panic when stderr
\* and stdout cannot be written
DecodeCommand ==
    /\ cmd = "Decode" /\ pc = "Decode"
    /\ \E logged, printed \in BOOLEAN :
          IF ~logged
          THEN /\ outcome' = "Panic"
               /\ UNCHANGED decoded
          ELSE /\ decoded' = decode_bencoded_value(encoded_value)
               /\ outcome' = IF decoded'.res = "Ok" /\ ~printed THEN "Panic"
                             ELSE decoded'.res
    /\ pc' = "Done"
    /\ UNCHANGED <<cmd, conn, keys, plength, length, hashes, piece_i, file,
                   ser, encoded_value, handshake, loop, lastMsg, log, output>>

NextDecode == DecodeCommand

SpecDecode == InitDecode /\ [][NextDecode]_vars

----------------------------------------------------------------------------
(* Properties                                                              *)

IsSend(e, t) == e.ev = "send" /\ e.tag = t
IsRecv(e, t) == e.ev = "recv" /\ e.tag = t

\* the Request messages sent so far, in order
Requests == SelectSeq(log, LAMBDA e : IsSend(e, "Request"))

\* the kind of the i-th entry of the log of a download of nb blocks
Canon(i, nb) ==
    CASE i = 1 -> <<"hs_write", "none">>
      [] i = 2 -> <<"hs_read", "none">>
      [] i = 3 -> <<"recv", "Bitfield">>
      [] i = 4 -> <<"send", "Interested">>
      [] i = 5 -> <<"recv", "Unchoke">>
      [] i > 5 /\ i <= 5 + 2 * nb ->
           IF (i - 5) % 2 = 1 THEN <<"send", "Request">>
           ELSE <<"recv", "Piece">>
      [] i = 6 + 2 * nb -> <<"verify", "none">>
      [] i = 7 + 2 * nb -> <<"write", "none">>
      [] OTHER -> <<"nothing", "none">>

\* the last entry of the log is what the peer sent and an assertion rejected
Rejected(i) ==
    /\ i = Len(log)
    /\ outcome = "Panic"
    /\ log[i].ev \in {"recv", "hs_read"}

\* C1: every download goes through handshake write, handshake read and
\* validation, Bitfield received first, Interested sent with an empty
\* payload, Unchoke received with an empty payload, then alternating
\* Request/Piece rounds, then verification, then the write that ends it; no
\* Request is in the log unless Bitfield, Interested and Unchoke precede it.
C1_StepOrder ==
    cmd = "DownloadPiece" =>
      /\ \A i \in 1..Len(log) :
            ~Rejected(i) =>
               /\ <<log[i].ev, log[i].tag>> = Canon(i, nblocks)
               /\ i = 2 => ValidHandshake(handshake)
               /\ i \in {4, 5} => log[i].size = 0
      /\ \A i \in 1..Len(log) :
            IsSend(log[i], "Request") =>
               /\ i > 5
               /\ IsRecv(log[3], "Bitfield")
               /\ IsSend(log[4], "Interested")
               /\ IsRecv(log[5], "Unchoke")
      /\ outcome = "Ok" => Len(log) = 7 + 2 * nblocks

C1_Witness ==
    /\ cmd = "DownloadPiece"
    /\ outcome = "Ok"
    /\ nblocks >= 2
    /\ Len(Requests) = nblocks

\* C2: requests are never pipelined: the number of Requests sent minus the
\* number of Piece responses accepted into the buffer is 0 or 1, and it is
\* 1 only while the answer is awaited (or the download ended there).
C2_NoPipelining ==
    LET inflight == Len(Requests) - Len(all_blocks)
    IN /\ inflight \in {0, 1}
       /\ inflight = 1 => pc \in {"AwaitPiece", "Done"}
       /\ pc = "Request" => Len(Requests) = block /\ Len(all_blocks) = block

C2_Witness ==
    /\ pc = "AwaitPiece"
    /\ Len(Requests) = 2
    /\ Len(all_blocks) = 1

\* f holds the first bytes of buf, or all of them
IsPrefix(f, buf) ==
    /\ Len(f) <= Len(buf)
    /\ \A k \in 1..Len(f) :
          /\ f[k].data = buf[k].data
          /\ IF k < Len(f) THEN f[k].len = buf[k].len
             ELSE f[k].len >= 1 /\ f[k].len <= buf[k].len

\* the download failed before it got to the write of the output file
FailedBeforeWrite ==
    /\ outcome \in {"Err", "Panic"}
    /\ \A i \in 1..Len(log) : log[i].ev # "verify"

\* C3: the output file is written only with a buffer of exactly piece_size
\* bytes whose digest is the expected hash of piece piece_i, and only bytes
\* of the verified buffer are written; a download that fails on the
\* handshake, on a message, on the hash or on the connection writes nothing.
C3_OnlyVerifiedWritten ==
    /\ (output # NoFile \/ pc = "Write") =>
          /\ BufLen(all_blocks) = piece_size
          /\ Sha1(all_blocks) = hashes[piece_i + 1]
    /\ output # NoFile => IsPrefix(output, all_blocks)
    /\ (cmd = "DownloadPiece" /\ outcome = "Ok") => output = all_blocks
    /\ FailedBeforeWrite => output = NoFile

C3_Witness ==
    /\ output # NoFile
    /\ Len(output) >= 2
    /\ Sha1(output) = hashes[piece_i + 1]

\* a Piece message at entry i of the log that answers the Request at entry
\* i - 1 with another piece index or byte offset
MismatchedAnswer(i) ==
    /\ i > 5
    /\ IsRecv(log[i], "Piece")
    /\ log[i].size >= 8
    /\ IsSend(log[i - 1], "Request")
    /\ \/ log[i].index # log[i - 1].index
       \/ log[i].begin # log[i - 1].begin

\* C4: a Piece response whose index or offset differs from the request makes
\* the download fail with an error value (ProtocolViolation), its bytes are
\* not appended to the buffer and no further Request is sent.
C4_MismatchIsError ==
    \A i \in 1..Len(log) :
       MismatchedAnswer(i) =>
          /\ outcome = "Err"
          /\ i = Len(log)
          /\ Len(all_blocks) = Len(Requests) - 1

\* C5: for a piece length and a file length of at least 1 and every piece
\* index, the piece size is the piece length for an index that is not the
\* last, and for the last index the remainder of the file length by the
\* piece length, or the piece length when the remainder is zero; it is never
\* zero (and never above the piece length).
C5_PieceSize ==
    pc = "SizeBlocks" =>
       LET last == Len(hashes) - 1
           rem == length % plength
       IN /\ piece_i # last => piece_size = plength
          /\ piece_i = last /\ rem # 0 => piece_size = rem
          /\ piece_i = last /\ rem = 0 => piece_size = plength
          /\ piece_size # 0
          /\ piece_size \in 1..plength

C5_Witness ==
    /\ pc = "SizeBlocks"
    /\ Len(hashes) > 1
    /\ piece_i = Len(hashes) - 1
    /\ length > plength
    /\ length % plength = 0
    /\ piece_size = plength

RECURSIVE SumSeq(_)
SumSeq(q) == IF q = <<>> THEN 0 ELSE q[1] + SumSeq(Tail(q))

\* C6: the split of a piece of piece_size >= 1 bytes has ceil(piece_size /
\* BLOCK_MAX) blocks, all of BLOCK_MAX bytes but the last, which has
\* piece_size mod BLOCK_MAX bytes, or BLOCK_MAX when that is zero; every
\* block has 1..BLOCK_MAX bytes, the sizes sum to piece_size, and 20000
\* bytes split into 16384 and 3616.
C6_BlockSplit ==
    (pc = "SizeBlocks" /\ block = nblocks) =>
       LET sizes == [k \in 1..Len(built) |-> built[k].length]
           rem == piece_size % BLOCK_MAX
       IN /\ Len(sizes) = nblocks
          /\ nblocks * BLOCK_MAX >= piece_size
          /\ (nblocks - 1) * BLOCK_MAX < piece_size
          /\ \A k \in 1..(nblocks - 1) : sizes[k] = BLOCK_MAX
          /\ sizes[nblocks] = IF rem = 0 THEN BLOCK_MAX ELSE rem
          /\ \A k \in 1..nblocks : sizes[k] \in 1..BLOCK_MAX
          /\ SumSeq(sizes) = piece_size
          /\ piece_size = 20000 => sizes = <<16384, 3616>>

C6_Witness ==
    /\ pc = "SizeBlocks"
    /\ block = nblocks
    /\ piece_size = 20000
    /\ Len(built) = 2

\* the download got as far as verification
ReachedVerify ==
    /\ cmd = "DownloadPiece"
    /\ \/ pc \in {"Verify", "Write"}
       \/ \E i \in 1..Len(log) : log[i].ev = "verify"

\* C7: in a download that reaches verification the Requests sent are, for
\* block 0, 1, ..., nblocks - 1 in this order, {piece_i, block * BLOCK_MAX,
\* size of the block}: one Request per block, offsets strictly ascending,
\* each range starting where the one before ends, from 0 up to piece_size.
C7_RequestSequence ==
    ReachedVerify =>
       LET reqs == Requests
       IN /\ Len(reqs) = nblocks
          /\ \A k \in 1..Len(reqs) :
                /\ reqs[k].index = piece_i
                /\ reqs[k].begin = (k - 1) * BLOCK_MAX
                /\ reqs[k].len = IF k < nblocks THEN BLOCK_MAX
                                 ELSE piece_size - (nblocks - 1) * BLOCK_MAX
                /\ reqs[k].len >= 1
                /\ k = 1 => reqs[k].begin = 0
                /\ k > 1 => /\ reqs[k].begin > reqs[k - 1].begin
                            /\ reqs[k].begin
                                 = reqs[k - 1].begin + reqs[k - 1].len
                /\ k = Len(reqs) => reqs[k].begin + reqs[k].len = piece_size

C7_Witness ==
    /\ ReachedVerify
    /\ pc = "Write"
    /\ nblocks >= 2
    /\ piece_size % BLOCK_MAX # 0

\* the message received after Interested was sent, when there is one
AfterInterested == Len(log) >= 5 /\ log[5].ev = "recv"

\* C8 as stated: after Interested the downloader waits for an Unchoke with
\* an empty payload; a message of another tag that is not Choke leaves it
\* waiting, only an empty Unchoke lets it enter the block loop, and a Choke
\* ends the download as a failure with no Request sent.
C8_OtherTagsKeepWaiting ==
    AfterInterested =>
       /\ log[5].tag \notin {"Unchoke", "Choke"} =>
             outcome = "Running" /\ pc = "AwaitUnchoke"
       /\ Len(Requests) > 0 => log[5].tag = "Unchoke" /\ log[5].size = 0
       /\ log[5].tag = "Choke" =>
             outcome \in {"Err", "Panic"} /\ Len(Requests) = 0

\* C8 amended: after Interested the downloader reads one framed message; it
\* goes on to the block loop only when that message is an Unchoke with an
\* empty payload, and any other message (a Choke, any other tag, an Unchoke
\* with a payload) ends the download as a failure with no Request sent.
C8_OneMessageDecides ==
    /\ pc = "AwaitUnchoke" => Len(log) = 4 /\ outcome = "Running"
    /\ AfterInterested =>
          IF log[5].tag = "Unchoke" /\ log[5].size = 0
          THEN pc # "AwaitUnchoke"
          ELSE /\ outcome = "Panic"
               /\ pc = "Done"
               /\ Len(log) = 5
               /\ Len(Requests) = 0
    /\ (pc \in {"Sizes", "Request", "AwaitPiece", "Verify", "Write"}
          \/ Len(Requests) > 0) =>
             /\ AfterInterested
             /\ log[5].tag = "Unchoke"
             /\ log[5].size = 0

C8_Witness ==
    /\ AfterInterested
    /\ log[5].tag = "Choke"
    /\ outcome = "Panic"
    /\ Len(Requests) = 0

\* C9: when the first framed message after the handshake is not a Bitfield,
\* the download fails with an error value (ProtocolViolation), and neither
\* Interested nor a Request is sent afterwards.
C9_NotBitfieldIsError ==
    (cmd = "DownloadPiece" /\ Len(log) >= 3 /\ log[3].ev = "recv"
       /\ log[3].tag # "Bitfield") =>
          /\ outcome = "Err"
          /\ Len(log) = 3

\* C10: when the handshake answer does not start with 19 and "BitTorrent
\* protocol", the handshake fails with an error value returned to the
\* caller (ProtocolMismatch), not with an abort of the process, and no
\* framed message is sent or received afterwards.
C10_HandshakeMismatchIsError ==
    (Len(log) >= 2 /\ log[2].ev = "hs_read" /\ ~ValidHandshake(handshake)) =>
       /\ outcome = "Err"
       /\ Len(log) = 2

\* C11: the peer connection, once opened, is closed in every terminal state:
\* success, handshake mismatch, protocol violation, hash mismatch and
\* connection error; it is open only while the command runs.
C11_ConnectionClosed ==
    /\ pc = "Done" => conn # "open"
    /\ conn = "open" => outcome = "Running"
    /\ Len(log) > 0 => conn # "none"

C11_Witness ==
    /\ pc = "Done"
    /\ conn = "closed"
    /\ outcome = "Panic"
    /\ MismatchedAnswer(Len(log))

\* the handshake was validated: the exchange of framed messages started
Started ==
    /\ cmd = "DownloadPiece"
    /\ Len(log) >= 2
    /\ log[2].ev = "hs_read"
    /\ ValidHandshake(handshake)

UnchokeAccepted ==
    AfterInterested /\ log[5].tag = "Unchoke" /\ log[5].size = 0

\* ways a started download is over
Completed ==
    /\ outcome = "Ok"
    /\ output = all_blocks
    /\ Verified(all_blocks, piece_size, hashes[piece_i + 1])
    /\ Len(Requests) = nblocks
    /\ Len(all_blocks) = nblocks
    /\ Len(log) = 7 + 2 * nblocks

ZeroPieceLength ==
    /\ outcome = "Panic"
    /\ Len(log) = 5
    /\ UnchokeAccepted
    /\ plength = 0
    /\ piece_i = Len(hashes) - 1

HashFailure ==
    /\ outcome = "Panic"
    /\ UnchokeAccepted
    /\ ~ZeroPieceLength
    /\ Len(log) = 5 + 2 * nblocks
    /\ Len(all_blocks) = nblocks
    /\ ~Verified(all_blocks, piece_size, hashes[piece_i + 1])

\* the last message received was rejected by an assertion
MessageRejected ==
    /\ outcome = "Panic"
    /\ log[Len(log)].ev = "recv"
    /\ \/ Len(log) = 3 /\ log[3].tag # "Bitfield"
       \/ Len(log) = 5 /\ ~UnchokeAccepted
       \/ Len(log) > 5 /\ 2 * Len(all_blocks) < Len(log) - 5

\* peer.next() yielded None: the peer closed the connection
PeerClosed ==
    /\ outcome = "Panic"
    /\ \/ Len(log) = 2
       \/ IsSend(log[Len(log)], "Interested")
       \/ IsSend(log[Len(log)], "Request")

WriteFailed ==
    /\ outcome = "Err"
    /\ log[Len(log)].ev = "verify"

\* the file is written and println! found stdout closed
PrintFailed ==
    /\ outcome = "Panic"
    /\ log[Len(log)].ev = "write"
    /\ output = all_blocks

ConnectionError ==
    \/ outcome = "Err" /\ ~WriteFailed
    \/ PeerClosed

\* Vec::with_capacity(piece_size) could not allocate
AllocFailed ==
    /\ outcome = "Panic"
    /\ Len(log) = 5
    /\ UnchokeAccepted
    /\ ~ZeroPieceLength
    /\ piece_size >= 1
    /\ all_blocks = <<>>

\* the first half of C12 as stated: the three outcomes
ThreeOutcomes ==
    (Started /\ pc = "Done") =>
       Completed \/ HashFailure \/ ConnectionError

\* the second half of C12 as stated: fair receives give termination
ReceivesSuffice == WF_vars(RecvStep) => [](Started => <>(pc = "Done"))

\* C12 as stated: a started download ends in completion with verified
\* bytes, in a hash failure or in a connection error; and when every
\* receive comes back (the peer delivers a message or closes), every
\* started download reaches a terminal state.
C12_AsStated == []ThreeOutcomes /\ ReceivesSuffice

\* C12 amended: a started download ends in exactly one of: completion with
\* verified bytes after exactly nblocks request/response rounds, a hash
\* failure, a connection error, a message rejected by an assertion (another
\* tag than expected, an Unchoke with a payload, a Piece that does not
\* answer the request), a division by a zero piece length, a failed
\* allocation of the piece buffer, a failure to write the output file, or a
\* failure to print the final line; and when every receive, every send and
\* the write of the output file come back, every started download reaches a
\* terminal state.
C12_Terminates ==
    /\ [](Started /\ pc = "Done" =>
            \E c \in 1..8 :
               <<Completed, HashFailure, ConnectionError, MessageRejected,
                 ZeroPieceLength, AllocFailed, WriteFailed, PrintFailed>>
                  = [k \in 1..8 |-> k = c])
    /\ WF_vars(StartedIoStep) => [](Started => <>(pc = "Done"))

C12_Witness ==
    /\ Started
    /\ pc = "Done"
    /\ Completed
    /\ nblocks = MaxBlocks

\* C19: the buffer holds the accepted blocks in offset order: before the
\* Request for block k is sent its length is k * BLOCK_MAX, it changes only
\* by the append of the block of a Piece message that passed the checks on
\* tag, index, offset and length, it never shrinks, and when verification
\* starts its length is piece_size.
C19_BufferGrowsInOrder ==
    /\ [](/\ pc = "Request" => BufLen(all_blocks) = block * BLOCK_MAX
          /\ pc = "Verify" => BufLen(all_blocks) = piece_size
          /\ Len(all_blocks) = block
          /\ \A k \in 1..Len(all_blocks) :
                /\ all_blocks[k].len = IF k < nblocks THEN BLOCK_MAX
                                       ELSE piece_size - (k - 1) * BLOCK_MAX
                /\ all_blocks[k].len >= 1)
    /\ [][all_blocks' # all_blocks =>
            /\ pc = "AwaitPiece"
            /\ lastMsg'.tag = "Piece"
            /\ lastMsg'.index = piece_i
            /\ lastMsg'.begin = BufLen(all_blocks)
            /\ lastMsg'.begin = block * BLOCK_MAX
            /\ lastMsg'.size - 8 = BlockSize(block, nblocks, piece_size)
            /\ all_blocks' = Append(all_blocks, [len |-> lastMsg'.size - 8,
                                                 data |-> lastMsg'.data])
            /\ BufLen(all_blocks') > BufLen(all_blocks)]_vars

C19_Witness ==
    /\ pc = "Request"
    /\ block = 2
    /\ BufLen(all_blocks) = 2 * BLOCK_MAX
    /\ all_blocks[1].data # all_blocks[2].data

\* the range check of line 224 passed
RangeChecked ==
    /\ cmd = "DownloadPiece"
    /\ pc # "Start"
    /\ keys = "SingleFile"
    /\ piece_i < Len(hashes)

\* C20: for every accepted metadata and every piece index that passes the
\* range check, the computation of the piece size does not abort, piece_size
\* and nblocks are at least 1 once computed, and the download does not get
\* to verify or write a buffer without having sent a Request.
C20_AtLeastOneRequest ==
    RangeChecked =>
       /\ ~ZeroPieceLength
       /\ pc \in {"Request", "AwaitPiece", "Verify", "Write"} =>
             piece_size >= 1 /\ nblocks >= 1
       /\ (pc \in {"Verify", "Write"} \/ outcome = "Ok") =>
             Len(Requests) >= 1

\* the torrent was parsed and the download passed its checks of lines 219-224
Operates == pc \in {"Announce", "Hashed"}

RECURSIVE SumPieceSizes(_)
SumPieceSizes(n) ==
    IF n = 0 THEN 0
    ELSE PieceSize(n - 1, Len(hashes), length, plength) + SumPieceSizes(n - 1)

\* C13: the metadata a download operates on has ceil(length / plength)
\* piece hashes, so that the piece sizes of all indices sum to length.
C13_HashCountMatchesLength ==
    (Operates /\ plength >= 1) =>
       /\ Len(hashes) * plength >= length
       /\ (Len(hashes) - 1) * plength < length
       /\ SumPieceSizes(Len(hashes)) = length

\* from_bytes was called on a file whose other keys are all well formed
KeysDecide ==
    /\ pc # "Parse"
    /\ file.required
    /\ VisitBytes(file.pieces).ok

\* C14: exactly one of `length` and `files` is required: the parse yields
\* SingleFile with only `length`, MultiFile with only `files`, and fails
\* with an error with both and with neither.
C14_ExactlyOneLayout ==
    KeysDecide =>
       /\ (file.hasLength /\ ~file.hasFiles) =>
             outcome # "Err" /\ keys = "SingleFile"
       /\ (~file.hasLength /\ file.hasFiles) =>
             outcome # "Err" /\ keys = "MultiFile"
       /\ (file.hasLength = file.hasFiles) =>
             outcome = "Err" /\ keys = "NoVariant"

\* C15: a `pieces` string whose length is not a multiple of 20 makes the
\* parse fail, with no hash kept; one of 20 * n bytes yields n hashes, hash
\* i being its bytes 20 * i .. 20 * i + 19 in order, and the hashes
\* serialized again are the string itself.
C15_PiecesChunks ==
    pc # "Parse" =>
       LET v == file.pieces
       IN /\ Len(v) % HASH_LEN # 0 =>
                outcome = "Err" /\ pc = "Done" /\ hashes = <<>>
          /\ (Len(v) % HASH_LEN = 0 /\ file.required
                /\ ParseKeys(file) # "NoVariant") =>
                /\ HASH_LEN * Len(hashes) = Len(v)
                /\ \A i \in 1..Len(hashes) :
                      /\ Len(hashes[i]) = HASH_LEN
                      /\ \A j \in 1..HASH_LEN :
                            hashes[i][j] = v[HASH_LEN * (i - 1) + j]
          /\ pc = "Hashed" => ser = v

C15_Witness ==
    /\ pc = "Hashed"
    /\ Len(hashes) = 2
    /\ hashes[1] # hashes[2]
    /\ ser = file.pieces

\* decode_bencoded_value was called and came back
Called == pc = "Done" /\ decoded.res # "None"

\* what a successful call consumed of its input
Consumed == SubSeq(encoded_value, 1, Len(encoded_value) - Len(decoded.rest))

\* C16: whenever decode_bencoded_value succeeds with (v, rest), rest is a
\* suffix of the input, the consumed prefix is not empty, decoding the
\* consumed prefix alone succeeds with (v, ""), and a list or dictionary
\* consumes up to and including its own terminating e and nothing after it.
C16_ConsumesOneValue ==
    (Called /\ decoded.res = "Ok") =>
        LET n == Len(encoded_value) - Len(decoded.rest)
        IN /\ n >= 1
           /\ SubSeq(encoded_value, n + 1, Len(encoded_value)) = decoded.rest
           /\ decode_bencoded_value(Consumed) = DecodeOk(decoded.val, <<>>)
           /\ decoded.val.t \in {"list", "dict"} =>
                 /\ Consumed[n] = "e"
                 /\ \A k \in 1..(n - 1) :
                      decode_bencoded_value(SubSeq(encoded_value, 1, k)).res
                          # "Ok"

\* a list that holds a list or a dictionary was decoded, and input is left
C16_Witness ==
    /\ Called /\ decoded.res = "Ok"
    /\ decoded.val.t = "list"
    /\ \E k \in 1..Len(decoded.val.items) :
          decoded.val.items[k].t \in {"list", "dict"}
    /\ decoded.rest # <<>>

\* the inputs that are not a complete well-formed value, by their first byte
UnknownLead ==
    \/ encoded_value = <<>>
    \/ ~(encoded_value[1] \in {"i", "l", "d"} \/ IsDigit(encoded_value[1]))

TruncatedInteger ==
    /\ encoded_value # <<>> /\ encoded_value[1] = "i"
    /\ IndexOf(Tail(encoded_value), "e") = 0

TruncatedLength ==
    /\ encoded_value # <<>> /\ IsDigit(encoded_value[1])
    /\ IndexOf(encoded_value, ":") = 0

LengthExceedsInput ==
    /\ encoded_value # <<>> /\ IsDigit(encoded_value[1])
    /\ LET c == IndexOf(encoded_value, ":")
       IN /\ c # 0
          /\ ParseUsize(SubSeq(encoded_value, 1, c - 1)).ok
          /\ Exceeds(ParseUsize(SubSeq(encoded_value, 1, c - 1)).n,
                     SubSeq(encoded_value, c + 1, Len(encoded_value)))

Unterminated ==
    /\ encoded_value # <<>> /\ encoded_value[1] \in {"l", "d"}
    /\ IndexOf(encoded_value, "e") = 0

\* C17: decoding is total with errors as values: on an unknown leading byte,
\* the empty input, a truncated integer or length field, a byte string whose
\* declared length exceeds the remaining input, or a list or dictionary whose
\* input ends before the terminating e, decode_bencoded_value returns an
\* error with no partial value, and it never aborts.
C17_DecodingIsTotal ==
    Called =>
        /\ decoded.res \in {"Ok", "Err"}
        /\ (UnknownLead \/ TruncatedInteger \/ TruncatedLength
                \/ LengthExceedsInput \/ Unterminated) =>
              (decoded.res = "Err" /\ decoded.val = NoValue)

\* the first key of a dictionary input, and the key after one good entry
FirstKey == decode_bencoded_value(Tail(encoded_value))

SecondKey ==
    LET value == decode_bencoded_value(FirstKey.rest)
    IN IF FirstKey.res = "Ok" /\ FirstKey.val.t = "str" /\ value.res = "Ok"
           /\ value.rest # <<>> /\ value.rest[1] # "e"
       THEN decode_bencoded_value(value.rest)
       ELSE DecodeErr("", <<>>)

NotAString(key) == key.res = "Ok" /\ key.val.t \in {"int", "list", "dict"}

\* C18: decoding a dictionary fails with the KeyNotString error whenever one
\* of its keys decodes to an integer, a list or a dictionary, and no
\* dictionary value is returned.
C18_KeyNotString ==
    (/\ Called
     /\ encoded_value # <<>> /\ encoded_value[1] = "d"
     /\ NotAString(FirstKey) \/ NotAString(SecondKey)) =>
        decoded = DecodeErr(KeyNotString, <<>>)

====
